---- MODULE Spec2Model ----
(***************************************************************************)
(* Distance-matrix batch engines of the repository:                        *)
(*   - src/Test.py    asynchronous per-record engine (fetch_all /          *)
(*                    fetch_single) with a rate-limiter semaphore, a       *)
(*                    concurrency semaphore and 429 backoff;               *)
(*   - src/Sign2.py   synchronous signed batching (batch_and_process,      *)
(*                    process_batch, safe_api_call, log_failed_batch);     *)
(*   - src/Polaris.py synchronous fixed-size batching (main,               *)
(*                    fetch_distance).                                     *)
(* SpecFetch is a run of Test.fetch_all over all interleavings of its      *)
(* units, SpecFetchTimed the same run against a clock; SpecBatch is a run  *)
(* of Sign2.batch_and_process or of Polaris.main, SpecBatchLogFault the    *)
(* same run when the failure log cannot be written, and SpecOverlap is     *)
(* several calls of Test.fetch_all overlapping in one process.             *)
(***************************************************************************)
EXTENDS Integers, Sequences, FiniteSets, TLC

\* ------------------------------------------------------------------ bounds
MaxRecords == 3
MaxConcurrency == 2
MaxRate == 2
MaxRetries == 1
MaxRows == 3
MaxBatch == 2
MaxBatchRetries == 2
MaxRuns == 2
MaxRunRecords == 1

VARIABLES
  \* ---- configuration, fixed by Init
  GOOGLE_RATE_LIMIT_PER_SECOND, \* Test.py:16
  MAX_RETRIES,                  \* Test.py:17, Sign2.py:19
  concurrency,                  \* Test.py fetch_all parameter
  records,                      \* Test.py fetch_all parameter: the record list
  timed,                        \* whether the run is observed with a clock
  SIGNING_SECRET,               \* Sign2.py:18
  log_writable,                 \* whether FAILED_LOG can be opened for appending
  \* ---- Test.py: fetch_all / safe_call / fetch_single
  rate_limiter,                 \* free permits of the global rate_limiter semaphore
  semaphore,                    \* free permits of the concurrency semaphore
  pc,                           \* position of each unit (one safe_call task per record)
  retry,                        \* retry argument of the unit's innermost fetch_single frame
  held,                         \* fetch_single frames of the unit that hold a rate permit
  timer,                        \* ticks left of the unit's current asyncio.sleep
  result,                       \* value the unit's task returns (or the exception it raises)
  recent,                       \* recent[a]: HTTP attempts started a-1 ticks ago (1-second window)
  fetch_all,                    \* "running" | "returned" | "raised"
  results,                      \* the list fetch_all returns
  \* ---- Sign2.py batch_and_process / Polaris.py main
  script,                       \* which program runs: "Sign2" | "Polaris" | "Test"
  BATCH_SIZE,                   \* Sign2.py:15, Polaris.py:103 (batch_size)
  csv,                          \* the rows of the input file
  bpc,                          \* position of the (single-threaded) batch program
  rdpos,                        \* rows the csv reader of valid_rows has consumed
  row_id,                       \* valid_rows' row_id counter
  batch,                        \* batch_and_process' accumulating batch
  last,                         \* TRUE in the final "if batch:" flush
  attempt,                      \* safe_api_call's loop variable
  outfile,                      \* rows written through the csv writer
  failed_log,                   \* lines appended to FAILED_LOG
  batches,                      \* Polaris main: the planned batches
  idx,                          \* Polaris main: index of the batch being sent
  all_results,                  \* Polaris main: accumulated rows
  dispatched,                   \* the batches handed to process_batch / fetch_distance (ghost)
  all_ok,                       \* every request so far was answered 200 with an all-OK matrix (ghost)
  cur,                          \* what was done for the last dispatched batch (ghost)
  \* ---- Test.py main / Polaris.py main: the files
  input_exists,                 \* the input file is still on disk
  output_written,               \* main wrote the output file
  \* ---- Test.py: fetch_all calls that overlap in one process
  runs,                         \* per fetch_all call: its semaphore and its units
  limiters,                     \* free permits of every asyncio.Semaphore bound to rate_limiter
  bound                         \* which of them the global name rate_limiter refers to now

fetchVars == <<rate_limiter, semaphore, pc, retry, held, timer, result, recent,
               fetch_all, results>>
confVars == <<GOOGLE_RATE_LIMIT_PER_SECOND, MAX_RETRIES, concurrency, records, timed,
              script, BATCH_SIZE, csv, SIGNING_SECRET, log_writable>>
batchVars == <<bpc, rdpos, row_id, batch, last, attempt, outfile, failed_log,
               batches, idx, all_results, dispatched, all_ok, cur>>
fileVars == <<input_exists, output_written>>
overlapVars == <<runs, limiters, bound>>
vars == <<confVars, fetchVars, batchVars, fileVars, overlapVars>>

\* ------------------------------------------------------------------ Test.py
(* With the clock (timed), time is counted in ticks of one rate slot,       *)
(* 1/GOOGLE_RATE_LIMIT_PER_SECOND seconds: asyncio.sleep(1/R) is one tick  *)
(* and one second is R ticks.  A sleep ends no earlier than its duration   *)
(* (the timer reaches 0) and may end later; a network call takes any time  *)
(* >= 0.  Without the clock every sleep and every network call takes an    *)
(* arbitrary time: all interleavings of the units' steps are possible.     *)
Units == 1 .. Len(records)

SlotTicks == 1

\* asyncio.sleep(d): the timer the sleeping unit waits for
SleepFor(d) == IF timed THEN d ELSE 0

TicksPerSecond == GOOGLE_RATE_LIMIT_PER_SECOND

\* random.uniform(0.1, 0.5) seconds, in whole ticks (rounded up)
JitterTicks == ((GOOGLE_RATE_LIMIT_PER_SECOND + 9) \div 10) ..
               ((GOOGLE_RATE_LIMIT_PER_SECOND + 1) \div 2)

\* wait_time = 2 ** retry + random.uniform(0.1, 0.5), in ticks
WaitTicks(r) == { (2 ^ r) * TicksPerSecond + j : j \in JitterTicks }

\* What one session.get / response.json() can produce.
HttpOutcomes == {"ok", "noelem", "badjson", "s429", "s500", "neterr"}

Unset == [kind |-> "unset"]
NoneValue == [kind |-> "None"]
Raised == [kind |-> "exception"]

\* The dict fetch_single returns for a 200 response.
RowOf(rec, outcome) ==
  IF outcome = "ok"
  THEN [kind |-> "row", employee |-> rec.employee, source |-> rec.source_address,
        destination |-> rec.destination_address,
        distance_text |-> "5 mi", duration_text |-> "10 mins"]
  ELSE [kind |-> "row", employee |-> rec.employee, source |-> rec.source_address,
        destination |-> rec.destination_address,
        distance_text |-> "", duration_text |-> ""]

\* Units that hold a permit of the concurrency semaphore (inside safe_call).
InFlight == { u \in Units : pc[u] \notin {"pending", "done"} }

SemaphoreFreeMutant == semaphore >= 0

\* async with semaphore: (entry)
SemaphoreFree == semaphore > 0

SafeCallEnter(u) ==
  /\ fetch_all = "running"
  /\ pc[u] = "pending"
  /\ SemaphoreFree
  /\ semaphore' = semaphore - 1
  /\ pc' = [pc EXCEPT ![u] = "acquire"]
  /\ UNCHANGED <<batchVars, fileVars, overlapVars>>
  /\ UNCHANGED <<confVars, rate_limiter, retry, held, timer, result, recent,
                 fetch_all, results>>

\* await rate_limiter.acquire(), then session.get(url) is issued
RateAcquire(u) ==
  /\ fetch_all = "running"
  /\ pc[u] = "acquire"
  /\ rate_limiter > 0
  /\ rate_limiter' = rate_limiter - 1
  /\ held' = [held EXCEPT ![u] = @ + 1]
  /\ recent' = IF timed THEN [recent EXCEPT ![1] = @ + 1] ELSE recent
  /\ pc' = [pc EXCEPT ![u] = "get"]
  /\ UNCHANGED <<batchVars, fileVars, overlapVars>>
  /\ UNCHANGED <<confVars, semaphore, retry, timer, result, fetch_all, results>>

\* The response of the attempt arrives (or session.get / response.json() raises).
Response(u, outcome) ==
  /\ fetch_all = "running"
  /\ pc[u] = "get"
  /\ IF outcome = "s429" /\ retry[u] < MAX_RETRIES
     THEN /\ \E w \in WaitTicks(retry[u]) :
                timer' = [timer EXCEPT ![u] = SleepFor(w)]
          /\ pc' = [pc EXCEPT ![u] = "backoff"]
          /\ UNCHANGED result
     ELSE /\ timer' = [timer EXCEPT ![u] = SleepFor(SlotTicks)]
          /\ pc' = [pc EXCEPT ![u] = "slot"]
          /\ result' = [result EXCEPT ![u] =
                 CASE outcome \in {"s429", "s500"} -> NoneValue
                   [] outcome \in {"neterr", "badjson"} -> Raised
                   [] OTHER -> RowOf(records[u], outcome)]
  /\ UNCHANGED <<batchVars, fileVars, overlapVars>>
  /\ UNCHANGED <<confVars, rate_limiter, semaphore, retry, held, recent,
                 fetch_all, results>>

BackoffDoneMutant(u) ==
  /\ fetch_all = "running"
  /\ pc[u] = "backoff"
  /\ timer[u] = 0
  /\ retry' = [retry EXCEPT ![u] = @ + 1]
  /\ recent' = IF timed THEN [recent EXCEPT ![1] = @ + 1] ELSE recent
  /\ pc' = [pc EXCEPT ![u] = "get"]
  /\ UNCHANGED <<batchVars, fileVars, overlapVars>>
  /\ UNCHANGED <<confVars, rate_limiter, semaphore, held, timer, result,
                 fetch_all, results>>

\* asyncio.sleep(wait_time) is over: return await fetch_single(..., retry + 1)
BackoffDone(u) ==
  /\ fetch_all = "running"
  /\ pc[u] = "backoff"
  /\ timer[u] = 0
  /\ retry' = [retry EXCEPT ![u] = @ + 1]
  /\ pc' = [pc EXCEPT ![u] = "acquire"]
  /\ UNCHANGED <<batchVars, fileVars, overlapVars>>
  /\ UNCHANGED <<confVars, rate_limiter, semaphore, held, timer, result, recent,
                 fetch_all, results>>

SlotReleaseMutant(u) ==
  /\ fetch_all = "running"
  /\ pc[u] = "slot"
  /\ timer[u] = 0
  /\ rate_limiter' = IF result[u] = Raised THEN rate_limiter ELSE rate_limiter + 1
  /\ held' = [held EXCEPT ![u] = @ - 1]
  /\ IF held[u] > 1
     THEN /\ timer' = [timer EXCEPT ![u] = SleepFor(SlotTicks)]
          /\ UNCHANGED <<pc, semaphore>>
     ELSE /\ pc' = [pc EXCEPT ![u] = "done"]
          /\ semaphore' = semaphore + 1
          /\ UNCHANGED timer
  /\ UNCHANGED <<batchVars, fileVars, overlapVars>>
  /\ UNCHANGED <<confVars, retry, result, recent, fetch_all, results>>

\* finally: await asyncio.sleep(1 / R); rate_limiter.release() of one frame; the
\* outermost frame then leaves safe_call's "async with semaphore".
SlotRelease(u) ==
  /\ fetch_all = "running"
  /\ pc[u] = "slot"
  /\ timer[u] = 0
  /\ rate_limiter' = rate_limiter + 1
  /\ held' = [held EXCEPT ![u] = @ - 1]
  /\ IF held[u] > 1
     THEN /\ timer' = [timer EXCEPT ![u] = SleepFor(SlotTicks)]
          /\ UNCHANGED <<pc, semaphore>>
     ELSE /\ pc' = [pc EXCEPT ![u] = "done"]
          /\ semaphore' = semaphore + 1
          /\ UNCHANGED timer
  /\ UNCHANGED <<batchVars, fileVars, overlapVars>>
  /\ UNCHANGED <<confVars, retry, result, recent, fetch_all, results>>

\* One tick of the clock passes.
Tick ==
  /\ timed
  /\ fetch_all = "running"
  /\ timer' = [u \in Units |-> IF timer[u] > 0 THEN timer[u] - 1 ELSE 0]
  /\ recent' = [a \in 1 .. TicksPerSecond |-> IF a = 1 THEN 0 ELSE recent[a - 1]]
  /\ UNCHANGED <<batchVars, fileVars, overlapVars>>
  /\ UNCHANGED <<confVars, rate_limiter, semaphore, pc, retry, held, result,
                 fetch_all, results>>

IsRow(r) == r.kind = "row"

FetchAllReturnMutant ==
  /\ fetch_all = "running"
  /\ \A u \in Units : pc[u] = "done" /\ result[u] # Raised
  /\ fetch_all' = "returned"
  /\ results' = LET rs == SelectSeq([u \in Units |-> result[u]], IsRow)
                IN [k \in 1 .. Len(rs) |-> rs[Len(rs) + 1 - k]]
  /\ UNCHANGED <<batchVars, fileVars, overlapVars>>
  /\ UNCHANGED <<confVars, rate_limiter, semaphore, pc, retry, held, timer, result,
                 recent>>

\* results = await asyncio.gather(...); return [r for r in results if r]
FetchAllReturn ==
  /\ fetch_all = "running"
  /\ \A u \in Units : pc[u] = "done" /\ result[u] # Raised
  /\ fetch_all' = "returned"
  /\ results' = SelectSeq([u \in Units |-> result[u]], IsRow)
  /\ UNCHANGED <<batchVars, fileVars, overlapVars>>
  /\ UNCHANGED <<confVars, rate_limiter, semaphore, pc, retry, held, timer, result,
                 recent>>

\* main after fetch_all returned: the output is written if there are results, then
\* os.remove(input_path).  An exception of fetch_all leaves main before both.
MainFinish ==
  /\ fetch_all = "returned"
  /\ input_exists
  /\ output_written' = (results # <<>>)
  /\ input_exists' = FALSE
  /\ UNCHANGED <<confVars, fetchVars, batchVars, overlapVars>>

\* gather (return_exceptions not set) re-raises the first exception of a task.
FetchAllRaise ==
  /\ fetch_all = "running"
  /\ \E u \in Units : pc[u] = "done" /\ result[u] = Raised
  /\ fetch_all' = "raised"
  /\ UNCHANGED <<batchVars, fileVars, overlapVars>>
  /\ UNCHANGED <<confVars, rate_limiter, semaphore, pc, retry, held, timer, result,
                 recent, results>>

\* ------------------------------------------------------------------ Sign2.py
RETRY_BACKOFF_BASE == 2

\* dict.get(key, default)
Get(d, k, default) == IF k \in DOMAIN d THEN d[k] ELSE default

\* Strings are sequences of tokens; " " is the whitespace token.
Digit == <<"1", "2", "3", "4", "5", "6", "7", "8">>

RECURSIVE LStrip(_)
LStrip(f) == IF f # <<>> /\ Head(f) = " " THEN LStrip(Tail(f)) ELSE f

RECURSIVE RStrip(_)
RStrip(f) ==
  IF f # <<>> /\ f[Len(f)] = " " THEN RStrip(SubSeq(f, 1, Len(f) - 1)) ELSE f

\* str.strip()
Strip(f) == RStrip(LStrip(f))

is_completeMutant(fields) == \A k \in 1 .. Len(fields) : fields[k] # <<>>

\* all(f.strip() for f in fields)
is_complete(fields) == \A k \in 1 .. Len(fields) : Strip(fields[k]) # <<>>

RECURSIVE Join(_, _)
\* sep.join(fields)
Join(sep, fields) ==
  IF fields = <<>> THEN <<>>
  ELSE IF Len(fields) = 1 THEN fields[1]
  ELSE fields[1] \o <<sep>> \o Join(sep, Tail(fields))

\* The rows a csv.DictReader can deliver: row k of the file, complete, with an empty
\* origin_city, or with a whitespace-only dest_zip.
RowKinds == {"complete", "empty", "space"}

CsvRow(k, kind) ==
  [origin_street |-> <<"street", Digit[k]>>,
   origin_city |-> IF kind = "empty" THEN <<>> ELSE <<"city", Digit[k]>>,
   origin_state |-> <<"state">>,
   origin_zip |-> <<"zip", Digit[k]>>,
   dest_street |-> <<"dstreet", Digit[k]>>,
   dest_city |-> <<"dcity", Digit[k]>>,
   dest_state |-> <<"dstate">>,
   dest_zip |-> IF kind = "space" THEN <<" ", " ">> ELSE <<"dzip", Digit[k]>>]

origin_fields(row) ==
  <<Get(row, "origin_street", <<>>), Get(row, "origin_city", <<>>),
    Get(row, "origin_state", <<>>), Get(row, "origin_zip", <<>>)>>

dest_fields(row) ==
  <<Get(row, "dest_street", <<>>), Get(row, "dest_city", <<>>),
    Get(row, "dest_state", <<>>), Get(row, "dest_zip", <<>>)>>

RECURSIVE NextValid(_, _)
\* valid_rows: the reader position of the next row that is yielded after position p
\* (rows that are not complete are skipped), 0 when the reader is exhausted.
NextValid(rows, p) ==
  IF p >= Len(rows) THEN 0
  ELSE IF is_complete(origin_fields(rows[p + 1]) \o dest_fields(rows[p + 1]))
       THEN p + 1
       ELSE NextValid(rows, p + 1)

\* yield row_id, origin, destination
YieldedRecord(id, row) ==
  <<id, Join(", ", origin_fields(row)), Join(", ", dest_fields(row))>>

\* ---- the JSON bodies the API can answer with for a request of n origins
TextOf(unit, i, j) == [unit |-> unit, n |-> 10 * i + j]

EmptyText == [unit |-> "", n |-> 0]

Elem(i, j, st) ==
  CASE st = "OK" ->
         [status |-> "OK",
          distance |-> [text |-> TextOf("mi", i, j), value |-> 1000 + 10 * i + j],
          duration |-> [text |-> TextOf("mins", i, j), value |-> 2000 + 10 * i + j],
          duration_in_traffic |-> [text |-> TextOf("traffic mins", i, j)]]
    [] st = "absent" ->
         [distance |-> [text |-> TextOf("mi", i, j), value |-> 1000 + 10 * i + j]]
    [] OTHER -> [status |-> st]

\* A matrix of nrows rows, row i with lens[i] elements, all OK but the element at
\* position bad (if any), whose status is st.
Matrix(nrows, lens, bad, st) ==
  [status |-> "OK",
   rows |-> [i \in 1 .. nrows |->
              [elements |-> [j \in 1 .. lens[i] |->
                              Elem(i, j, IF <<i, j>> = bad THEN st ELSE "OK")]]]]

NoBad == <<0, 0>>

WellShaped(n) ==
  { Matrix(n, [i \in 1 .. n |-> n], bad, st) :
      bad \in (1 .. n) \X (1 .. n), st \in {"NOT_FOUND", "absent"} }
  \cup { Matrix(n, [i \in 1 .. n |-> n], NoBad, "OK") }

RowCountMismatch(n) ==
  { Matrix(m, [i \in 1 .. m |-> n], NoBad, "OK") : m \in {n - 1, n + 1} }
  \cup { [status |-> "INVALID_REQUEST"] }

ColumnMismatch(n) ==
  { Matrix(n, [i \in 1 .. n |-> IF i \in S THEN n + d ELSE n], NoBad, "OK") :
      S \in (SUBSET (1 .. n)) \ {{}}, d \in {-1, 1} }

Bodies(n) == WellShaped(n) \cup RowCountMismatch(n) \cup ColumnMismatch(n)

\* What one requests.get can produce: a 200 with a JSON body, a 200 whose body is
\* not JSON (resp.json() then raises a JSONDecodeError, which is a RequestException
\* from requests 2.27 on and a plain ValueError before), another status, or a
\* requests.RequestException.
ApiOutcomes(n) ==
  { [kind |-> "200", body |-> b] : b \in Bodies(n) }
  \cup { [kind |-> "unparsable", raises |-> e] : e \in {"RequestException", "ValueError"} }
  \cup { [kind |-> "status", code |-> 500], [kind |-> "RequestException"] }

\* ---- sign_url
\* GOOGLE_API_BASE, as the tokens of the URL
GOOGLE_API_BASE == <<"https", "://", "maps.googleapis.com", "/maps/api/distancematrix/json">>

API_KEY == <<"your_api_key_here">>

\* The secrets a configuration can hold: base64 text of 4 characters (3 bytes) and
\* text whose length is not a multiple of 4.
Secrets == { <<"c", "2", "V", "j">>, <<"c", "2", "V">> }

\* base64.urlsafe_b64decode(secret) raises binascii.Error (incorrect padding)
b64decode_raises(secret) == Len(secret) % 4 # 0

\* base64.urlsafe_b64decode(secret): the key bytes
urlsafe_b64decode(secret) == <<"bytes(">> \o secret \o <<")">>

\* urllib.parse.quote_plus of one token of an address
QuoteToken(t) ==
  CASE t = ", " -> <<"%2C", "+">>
    [] t = " " -> <<"+">>
    [] t = "|" -> <<"%7C">>
    [] OTHER -> <<t>>

RECURSIVE quote_plus(_)
quote_plus(s) == IF s = <<>> THEN <<>> ELSE QuoteToken(Head(s)) \o quote_plus(Tail(s))

RECURSIVE JoinAll(_, _)
\* sep.join(parts), the parts being token sequences
JoinAll(sep, parts) ==
  IF parts = <<>> THEN <<>>
  ELSE IF Len(parts) = 1 THEN parts[1]
  ELSE parts[1] \o <<sep>> \o JoinAll(sep, Tail(parts))

\* unsigned_url of process_batch for the base URL base
UnsignedUrl(base, b) ==
  base \o <<"?", "origins=">>
       \o JoinAll("|", [k \in 1 .. Len(b) |-> quote_plus(b[k][2])])
       \o <<"&destinations=">>
       \o JoinAll("|", [k \in 1 .. Len(b) |-> quote_plus(b[k][3])])
       \o <<"&departure_time=now&units=imperial&key=">> \o API_KEY

RECURSIVE IndexOf(_, _, _)
\* the first position >= p of token t in s, 0 if there is none
IndexOf(s, t, p) ==
  IF p > Len(s) THEN 0 ELSE IF s[p] = t THEN p ELSE IndexOf(s, t, p + 1)

\* urllib.parse.urlparse(input_url): the fragment is split off at the first "#",
\* then the query at the first "?", then scheme "://" netloc and the path.
urlparse(u) ==
  LET h == IndexOf(u, "#", 1)
      nofrag == IF h = 0 THEN u ELSE SubSeq(u, 1, h - 1)
      q == IndexOf(nofrag, "?", 1)
      noquery == IF q = 0 THEN nofrag ELSE SubSeq(nofrag, 1, q - 1)
  IN [scheme |-> SubSeq(noquery, 1, 1),
      netloc |-> SubSeq(noquery, 3, 3),
      path |-> SubSeq(noquery, 4, Len(noquery)),
      query |-> IF q = 0 THEN <<>> ELSE SubSeq(nofrag, q + 1, Len(nofrag)),
      fragment |-> IF h = 0 THEN <<>> ELSE SubSeq(u, h + 1, Len(u))]

UrlToSignMutant(url) == url.netloc \o url.path \o <<"?">> \o url.query

\* url_to_sign = url.path + "?" + url.query
UrlToSign(url) == url.path \o <<"?">> \o url.query

\* base64.urlsafe_b64encode(hmac.new(key, msg, hashlib.sha1).digest()).decode(),
\* after .replace('+', '-').replace('/', '_'); the digest is kept symbolic.
safe_signature(key, msg) ==
  <<"b64(", "hmac_sha1(">> \o key \o <<";">> \o msg \o <<")", ")">>

\* sign_url(input_url, secret), for a secret that decodes
sign_url(input_url, secret) ==
  LET url == urlparse(input_url)
      decoded_secret == urlsafe_b64decode(secret)
  IN url.scheme \o <<"://">> \o url.netloc \o url.path \o <<"?">> \o url.query
        \o <<"&signature=">> \o safe_signature(decoded_secret, UrlToSign(url))

\* ---- log_failed_batch
LogEntryMutant(b, reason) ==
  [ids |-> [k \in 1 .. Len(b) - 1 |-> b[k][1]], reason |-> reason]

\* the line log_failed_batch appends: batch_ids = [str(b[0]) for b in batch]
LogEntry(b, reason) == [ids |-> [k \in 1 .. Len(b) |-> b[k][1]], reason |-> reason]

\* ---- process_batch, from "raw_json_str = json.dumps(data)" on
\* str(n) of a row id
Str(n) == <<Digit[n]>>

\* pair_id = f"{batch[i][0]}-{batch[j][0]}"
pair_id(b, i, j) == Str(b[i][1]) \o <<"-">> \o Str(b[j][1])

ElementText(element, key) ==
  IF key \in DOMAIN element THEN Get(element[key], "text", EmptyText) ELSE EmptyText

OutputRowStatusMutant(b, data, i, j, element) ==
  [id |-> pair_id(b, i, j), origin |-> b[i][2], destination |-> b[j][3],
   distance_miles |-> ElementText(element, "distance"),
   duration_time |-> ElementText(element, "duration"),
   traffic_duration_time |-> ElementText(element, "duration_in_traffic"),
   raw_output |-> [prefix |-> <<>>, json |-> data]]

OutputRowMutant(b, data, i, j, element) ==
  [id |-> pair_id(b, i, j), origin |-> b[j][2], destination |-> b[i][3],
   distance_miles |-> ElementText(element, "distance"),
   duration_time |-> ElementText(element, "duration"),
   traffic_duration_time |-> ElementText(element, "duration_in_traffic"),
   raw_output |-> [prefix |-> <<>>, json |-> data]]

\* The row written for element j of matrix row i.
OutputRow(b, data, i, j, element) ==
  LET status == Get(element, "status", "UNKNOWN") IN
  IF status # "OK"
  THEN [id |-> pair_id(b, i, j), origin |-> b[i][2], destination |-> b[j][3],
        distance_miles |-> EmptyText, duration_time |-> EmptyText,
        traffic_duration_time |-> EmptyText,
        raw_output |-> [prefix |-> <<"Status: ", status>>, json |-> data]]
  ELSE [id |-> pair_id(b, i, j), origin |-> b[i][2], destination |-> b[j][3],
        distance_miles |-> ElementText(element, "distance"),
        duration_time |-> ElementText(element, "duration"),
        traffic_duration_time |-> ElementText(element, "duration_in_traffic"),
        raw_output |-> [prefix |-> <<>>, json |-> data]]

RowsMismatchMutant(rows, origins) == Len(rows) > Len(origins)

\* if len(rows) != len(origins):
RowsMismatch(rows, origins) == Len(rows) # Len(origins)

RECURSIVE ReconcileRows(_, _, _)
\* for i, row in enumerate(rows): ... from matrix row i on; the rows written and the
\* failure lines appended, in order.
ReconcileRows(b, data, i) ==
  LET rows == Get(data, "rows", <<>>) IN
  IF i > Len(rows) THEN [rows |-> <<>>, logs |-> <<>>]
  ELSE LET elements == Get(rows[i], "elements", <<>>)
           rest == ReconcileRows(b, data, i + 1)
       IN IF Len(elements) # Len(b)
          THEN [rows |-> rest.rows,
                logs |-> <<LogEntry(b, <<"Mismatch in elements count for row",
                                         i - 1, Len(b), Len(elements)>>)>>
                         \o rest.logs]
          ELSE [rows |-> [j \in 1 .. Len(b) |-> OutputRow(b, data, i, j, elements[j])]
                         \o rest.rows,
                logs |-> rest.logs]

RECURSIVE RowsUntilLog(_, _, _)
\* The rows process_batch has written, from matrix row i on, when it reaches its
\* first call of log_failed_batch in the loop over the rows.
RowsUntilLog(b, data, i) ==
  LET rows == Get(data, "rows", <<>>) IN
  IF i > Len(rows) THEN <<>>
  ELSE LET elements == Get(rows[i], "elements", <<>>) IN
       IF Len(elements) # Len(b) THEN <<>>
       ELSE [j \in 1 .. Len(b) |-> OutputRow(b, data, i, j, elements[j])]
            \o RowsUntilLog(b, data, i + 1)

Reconcile(b, data) ==
  LET rows == Get(data, "rows", <<>>) IN
  IF RowsMismatch(rows, b)
  THEN [rows |-> <<>>,
        logs |-> <<LogEntry(b, <<"Mismatch in rows count", Len(b), Len(rows)>>)>>]
  ELSE ReconcileRows(b, data, 1)

NoData == [none |-> TRUE]

\* A 200 body that resp.json() cannot decode.
Unparsable == [unparsable |-> TRUE]

\* The answer is the n x n matrix with every element OK.
IsAllOk(data, n) == data = Matrix(n, [i \in 1 .. n |-> n], NoBad, "OK")

\* Ghost record of the batch handed to process_batch / fetch_distance last: the
\* HTTP attempts made and the sleeps slept for it, how it ended, the decoded body,
\* how long the output and the failure log were when it was dispatched, the URL
\* requested for it, and the number of the attempt that was first answered 200.
NoBatch ==
  [attempts |-> 0, sleeps |-> <<>>, outcome |-> "none", data |-> NoData,
   out_start |-> 0, log_start |-> 0, url |-> <<>>, answered_at |-> 0]

Dispatch(out, log) ==
  [attempts |-> 0, sleeps |-> <<>>, outcome |-> "sent", data |-> NoData,
   out_start |-> Len(out), log_start |-> Len(log), url |-> <<>>, answered_at |-> 0]

\* The batch programs' variables when the asynchronous engine runs instead.
BatchIdle ==
  /\ bpc = "off"
  /\ rdpos = 0
  /\ row_id = 1
  /\ batch = <<>>
  /\ last = FALSE
  /\ attempt = 0
  /\ outfile = <<>>
  /\ failed_log = <<>>
  /\ batches = <<>>
  /\ idx = 0
  /\ all_results = <<>>
  /\ dispatched = <<>>
  /\ all_ok = TRUE
  /\ cur = NoBatch

RecordsOfLen(n) ==
  [k \in 1 .. n |-> [employee |-> k, source_address |-> <<"src", k>>,
                     destination_address |-> <<"dst", k>>]]

FilesStart == input_exists = TRUE /\ output_written = FALSE

OverlapIdle == runs = <<>> /\ limiters = <<>> /\ bound = 0

FetchStart ==
  /\ FilesStart
  /\ OverlapIdle
  /\ GOOGLE_RATE_LIMIT_PER_SECOND \in 1 .. MaxRate
  /\ MAX_RETRIES \in 0 .. MaxRetries
  /\ concurrency \in 1 .. MaxConcurrency
  /\ \E n \in 0 .. MaxRecords : records = RecordsOfLen(n)
  /\ rate_limiter = GOOGLE_RATE_LIMIT_PER_SECOND
  /\ semaphore = concurrency
  /\ pc = [u \in Units |-> "pending"]
  /\ retry = [u \in Units |-> 0]
  /\ held = [u \in Units |-> 0]
  /\ timer = [u \in Units |-> 0]
  /\ result = [u \in Units |-> Unset]
  /\ recent = [a \in 1 .. TicksPerSecond |-> 0]
  /\ fetch_all = "running"
  /\ results = <<>>
  /\ script = "Test"
  /\ BATCH_SIZE = 1
  /\ csv = <<>>
  /\ SIGNING_SECRET = <<>>
  /\ log_writable = TRUE
  /\ BatchIdle

InitFetch == timed = FALSE /\ FetchStart

InitFetchTimed == timed = TRUE /\ FetchStart

NextFetch ==
  \/ \E u \in Units : SafeCallEnter(u)
  \/ \E u \in Units : RateAcquire(u)
  \/ \E u \in Units, o \in HttpOutcomes : Response(u, o)
  \/ \E u \in Units : BackoffDone(u)
  \/ \E u \in Units : SlotRelease(u)
  \/ FetchAllReturn
  \/ FetchAllRaise
  \/ MainFinish

NextFetchTimed ==
  \/ \E u \in Units : SafeCallEnter(u)
  \/ \E u \in Units : RateAcquire(u)
  \/ \E u \in Units, o \in HttpOutcomes : Response(u, o)
  \/ \E u \in Units : BackoffDone(u)
  \/ \E u \in Units : SlotRelease(u)
  \/ Tick
  \/ FetchAllReturn
  \/ FetchAllRaise
  \/ MainFinish

\* A run of fetch_all, all interleavings.
SpecFetch == InitFetch /\ [][NextFetch]_vars

\* A run of fetch_all against the clock.
SpecFetchTimed == InitFetchTimed /\ [][NextFetchTimed]_vars

\* ------------------------------------------------------------------ Test.py: overlapping runs
(* Several calls of fetch_all whose executions overlap in one process (one   *)
(* event loop).  rate_limiter is a module global: every call of fetch_all    *)
(* binds the name to a new asyncio.Semaphore, and fetch_single looks the     *)
(* name up each time it acquires and each time it releases.  The concurrency *)
(* semaphore is a local of the call.                                         *)
Runs == 1 .. MaxRuns

NotCalled ==
  [state |-> "notcalled", semaphore |-> 0, pc |-> <<>>, retry |-> <<>>,
   held |-> <<>>, target |-> <<>>, result |-> <<>>]

RunUnits(r) == 1 .. Len(runs[r].pc)

\* the tasks of a call go on after gather re-raised the exception of one of them
RunActive(r) == runs[r].state \in {"running", "raised"}

\* global rate_limiter; rate_limiter = asyncio.Semaphore(R);
\* semaphore = asyncio.Semaphore(concurrency); one task per record
CallFetchAll(r, n) ==
  /\ runs[r].state = "notcalled"
  /\ limiters' = Append(limiters, GOOGLE_RATE_LIMIT_PER_SECOND)
  /\ bound' = Len(limiters) + 1
  /\ runs' = [runs EXCEPT ![r] =
        [state |-> "running", semaphore |-> concurrency,
         pc |-> [u \in 1 .. n |-> "pending"], retry |-> [u \in 1 .. n |-> 0],
         held |-> [u \in 1 .. n |-> 0], target |-> [u \in 1 .. n |-> 0],
         result |-> [u \in 1 .. n |-> "unset"]]]
  /\ UNCHANGED <<confVars, fetchVars, batchVars, fileVars>>

\* async with semaphore: (entry)
RunSafeCallEnter(r, u) ==
  /\ RunActive(r)
  /\ runs[r].pc[u] = "pending"
  /\ runs[r].semaphore > 0
  /\ runs' = [runs EXCEPT ![r].semaphore = @ - 1, ![r].pc[u] = "acquire"]
  /\ UNCHANGED <<confVars, fetchVars, batchVars, fileVars, limiters, bound>>

\* await rate_limiter.acquire(): the semaphore the global names now; with a permit
\* free the request goes out at once, otherwise the frame waits on that semaphore
RunRateAcquire(r, u) ==
  /\ RunActive(r)
  /\ runs[r].pc[u] = "acquire"
  /\ IF limiters[bound] > 0
     THEN /\ limiters' = [limiters EXCEPT ![bound] = @ - 1]
          /\ runs' = [runs EXCEPT ![r].pc[u] = "get", ![r].held[u] = @ + 1]
     ELSE /\ runs' = [runs EXCEPT ![r].pc[u] = "wait", ![r].target[u] = bound]
          /\ UNCHANGED limiters
  /\ UNCHANGED <<confVars, fetchVars, batchVars, fileVars, bound>>

\* the semaphore the frame waits on got a permit: acquire() returns
RunRateWake(r, u) ==
  /\ RunActive(r)
  /\ runs[r].pc[u] = "wait"
  /\ limiters[runs[r].target[u]] > 0
  /\ limiters' = [limiters EXCEPT ![runs[r].target[u]] = @ - 1]
  /\ runs' = [runs EXCEPT ![r].pc[u] = "get", ![r].held[u] = @ + 1]
  /\ UNCHANGED <<confVars, fetchVars, batchVars, fileVars, bound>>

\* what the task of the unit returns for an outcome of the request
ResultKind(outcome) ==
  CASE outcome \in {"s429", "s500"} -> "None"
    [] outcome \in {"neterr", "badjson"} -> "exception"
    [] OTHER -> "row"

\* The response of the attempt arrives (or session.get / response.json() raises).
RunResponse(r, u, outcome) ==
  /\ RunActive(r)
  /\ runs[r].pc[u] = "get"
  /\ runs' = IF outcome = "s429" /\ runs[r].retry[u] < MAX_RETRIES
             THEN [runs EXCEPT ![r].pc[u] = "backoff"]
             ELSE [runs EXCEPT ![r].pc[u] = "slot",
                               ![r].result[u] = ResultKind(outcome)]
  /\ UNCHANGED <<confVars, fetchVars, batchVars, fileVars, limiters, bound>>

\* asyncio.sleep(wait_time) is over: return await fetch_single(..., retry + 1)
RunBackoffDone(r, u) ==
  /\ RunActive(r)
  /\ runs[r].pc[u] = "backoff"
  /\ runs' = [runs EXCEPT ![r].pc[u] = "acquire", ![r].retry[u] = @ + 1]
  /\ UNCHANGED <<confVars, fetchVars, batchVars, fileVars, limiters, bound>>

\* finally: await asyncio.sleep(1 / R); rate_limiter.release() on the semaphore the
\* global names now; the outermost frame then leaves "async with semaphore"
RunSlotRelease(r, u) ==
  /\ RunActive(r)
  /\ runs[r].pc[u] = "slot"
  /\ limiters' = [limiters EXCEPT ![bound] = @ + 1]
  /\ runs' = IF runs[r].held[u] > 1
             THEN [runs EXCEPT ![r].held[u] = @ - 1]
             ELSE [runs EXCEPT ![r].held[u] = @ - 1, ![r].pc[u] = "done",
                               ![r].semaphore = @ + 1]
  /\ UNCHANGED <<confVars, fetchVars, batchVars, fileVars, bound>>

\* results = await asyncio.gather(...); return [r for r in results if r]
RunReturn(r) ==
  /\ runs[r].state = "running"
  /\ \A u \in RunUnits(r) : runs[r].pc[u] = "done" /\ runs[r].result[u] # "exception"
  /\ runs' = [runs EXCEPT ![r].state = "returned"]
  /\ UNCHANGED <<confVars, fetchVars, batchVars, fileVars, limiters, bound>>

\* gather (return_exceptions not set) re-raises the first exception of a task.
RunRaise(r) ==
  /\ runs[r].state = "running"
  /\ \E u \in RunUnits(r) : runs[r].pc[u] = "done" /\ runs[r].result[u] = "exception"
  /\ runs' = [runs EXCEPT ![r].state = "raised"]
  /\ UNCHANGED <<confVars, fetchVars, batchVars, fileVars, limiters, bound>>

\* ------------------------------------------------------------------ Sign2.py: the run
Header ==
  [id |-> "id", origin |-> "origin", destination |-> "destination",
   distance_miles |-> "distance_miles", duration_time |-> "duration_time",
   traffic_duration_time |-> "traffic_duration_time", raw_output |-> "raw_output"]

\* with open(output_filepath, 'w') ...: writer.writerow([header])
OpenOutput ==
  /\ script = "Sign2"
  /\ bpc = "start"
  /\ outfile' = <<Header>>
  /\ bpc' = "read"
  /\ UNCHANGED <<confVars, fetchVars, fileVars, overlapVars,
                 rdpos, row_id, batch, last, attempt,
                 failed_log, batches, idx, all_results, dispatched, all_ok, cur>>

\* process_batch(b, writer) up to the call of safe_api_call: the URL is built and
\* signed; an exception of sign_url leaves process_batch and batch_and_process.
ProcessBatchEnter(b) ==
  /\ dispatched' = Append(dispatched, b)
  /\ IF b64decode_raises(SIGNING_SECRET)
     THEN /\ bpc' = "raised"
          /\ cur' = [Dispatch(outfile, failed_log) EXCEPT !.outcome = "sign_raised"]
          /\ UNCHANGED attempt
     ELSE /\ bpc' = "call"
          /\ attempt' = 1
          /\ cur' = [Dispatch(outfile, failed_log) EXCEPT
                       !.url = sign_url(UnsignedUrl(GOOGLE_API_BASE, b), SIGNING_SECRET)]

BatchFullMutant(b) == Len(b) > BATCH_SIZE

\* if len(batch) == BATCH_SIZE:
BatchFull(b) == Len(b) = BATCH_SIZE

\* One iteration of "for record in valid_rows(filepath)": batch.append(record) and,
\* when the batch is full, the call of process_batch up to safe_api_call's loop.
ReadRecord ==
  /\ script = "Sign2"
  /\ bpc = "read"
  /\ NextValid(csv, rdpos) # 0
  /\ LET n == NextValid(csv, rdpos)
         b == Append(batch, YieldedRecord(row_id, csv[n]))
     IN /\ rdpos' = n
        /\ row_id' = row_id + 1
        /\ batch' = b
        /\ IF BatchFull(b)
           THEN ProcessBatchEnter(b)
           ELSE UNCHANGED <<bpc, attempt, dispatched, cur>>
  /\ UNCHANGED <<confVars, fetchVars, fileVars, overlapVars,
                 last, outfile, failed_log, batches, idx,
                 all_results, all_ok>>

\* valid_rows is exhausted: "if batch: process_batch(batch, writer)", or the end.
EndOfInput ==
  /\ script = "Sign2"
  /\ bpc = "read"
  /\ NextValid(csv, rdpos) = 0
  /\ rdpos' = Len(csv)
  /\ IF batch # <<>>
     THEN /\ last' = TRUE
          /\ ProcessBatchEnter(batch)
     ELSE /\ bpc' = "done"
          /\ UNCHANGED <<attempt, last, dispatched, cur>>
  /\ UNCHANGED <<confVars, fetchVars, fileVars, overlapVars,
                 row_id, batch, outfile, failed_log, batches,
                 idx, all_results, all_ok>>

FinishBatchMutant == bpc' = "done" /\ UNCHANGED batch

\* process_batch returns: "time.sleep(1); batch = []" in the loop, the end of the
\* run after the final flush.
FinishBatch ==
  IF last
  THEN bpc' = "done" /\ UNCHANGED batch
  ELSE bpc' = "read" /\ batch' = <<>>

\* sleep_time = RETRY_BACKOFF_BASE ** attempt
SleepTime(a) == RETRY_BACKOFF_BASE ^ a

\* for attempt in range(1, MAX_RETRIES + 1): one more iteration?
HasAttempt(a) == a <= MAX_RETRIES

\* the number of the attempt first answered 200 for the batch
FirstAnswer(c) == IF c.answered_at = 0 THEN c.attempts + 1 ELSE c.answered_at

\* One iteration of safe_api_call's loop: requests.get; a 200 returns resp.json()
\* and process_batch reconciles it (an exception of log_failed_batch leaves
\* process_batch and batch_and_process); a ValueError of resp.json() leaves
\* safe_api_call, process_batch and batch_and_process; anything else, a
\* RequestException of resp.json() included, goes to the backoff sleep.
ApiRequest(o) ==
  /\ script = "Sign2"
  /\ bpc = "call"
  /\ HasAttempt(attempt)
  /\ CASE o.kind = "200" ->
            LET r == Reconcile(batch, o.body) IN
            IF r.logs # <<>> /\ ~log_writable
            THEN /\ outfile' = outfile \o (IF RowsMismatch(Get(o.body, "rows", <<>>), batch)
                                            THEN <<>>
                                            ELSE RowsUntilLog(batch, o.body, 1))
                 /\ cur' = [cur EXCEPT !.attempts = @ + 1, !.outcome = "log_raised",
                                       !.data = o.body, !.answered_at = FirstAnswer(cur)]
                 /\ bpc' = "raised"
                 /\ UNCHANGED <<failed_log, batch>>
            ELSE /\ outfile' = outfile \o r.rows
                 /\ failed_log' = failed_log \o r.logs
                 /\ cur' = [cur EXCEPT !.attempts = @ + 1, !.outcome = "success",
                                       !.data = o.body, !.answered_at = FirstAnswer(cur)]
                 /\ FinishBatch
       [] o.kind = "unparsable" /\ o.raises = "ValueError" ->
            /\ bpc' = "raised"
            /\ cur' = [cur EXCEPT !.attempts = @ + 1, !.outcome = "json_raised",
                                  !.data = Unparsable, !.answered_at = FirstAnswer(cur)]
            /\ UNCHANGED <<outfile, failed_log, batch>>
       [] OTHER ->
            /\ bpc' = "sleep"
            /\ cur' = [cur EXCEPT !.attempts = @ + 1,
                                  !.sleeps = Append(@, SleepTime(attempt)),
                                  !.data = IF o.kind = "unparsable" THEN Unparsable ELSE @,
                                  !.answered_at = IF o.kind = "unparsable"
                                                  THEN FirstAnswer(cur) ELSE @]
            /\ UNCHANGED <<outfile, failed_log, batch>>
  /\ all_ok' = (all_ok /\ o.kind = "200" /\ IsAllOk(o.body, Len(batch)))
  /\ UNCHANGED <<confVars, fetchVars, fileVars, overlapVars,
                 rdpos, row_id, last, attempt, batches, idx,
                 all_results, dispatched>>

\* time.sleep(sleep_time) is over: the next iteration of the loop
BackoffOver ==
  /\ script = "Sign2"
  /\ bpc = "sleep"
  /\ attempt' = attempt + 1
  /\ bpc' = "call"
  /\ UNCHANGED <<confVars, fetchVars, fileVars, overlapVars,
                 rdpos, row_id, batch, last, outfile,
                 failed_log, batches, idx, all_results, dispatched, all_ok, cur>>

GiveUpMutant ==
  /\ script = "Sign2"
  /\ bpc = "call"
  /\ ~HasAttempt(attempt)
  /\ failed_log' = Append(failed_log,
         LogEntry(batch, <<"Max retries exceeded or API failure">>))
  /\ cur' = [cur EXCEPT !.outcome = "exhausted"]
  /\ bpc' = "call"
  /\ attempt' = 1
  /\ UNCHANGED <<confVars, fetchVars, fileVars, overlapVars,
                 rdpos, row_id, batch, last, outfile,
                 batches, idx, all_results, dispatched, all_ok>>

\* The loop is exhausted: safe_api_call returns None and process_batch logs the
\* batch and returns (an exception of log_failed_batch leaves process_batch and
\* batch_and_process).
GiveUp ==
  /\ script = "Sign2"
  /\ bpc = "call"
  /\ ~HasAttempt(attempt)
  /\ IF log_writable
     THEN /\ failed_log' = Append(failed_log,
                 LogEntry(batch, <<"Max retries exceeded or API failure">>))
          /\ cur' = [cur EXCEPT !.outcome = "exhausted"]
          /\ FinishBatch
     ELSE /\ cur' = [cur EXCEPT !.outcome = "log_raised"]
          /\ bpc' = "raised"
          /\ UNCHANGED <<failed_log, batch>>
  /\ UNCHANGED <<confVars, fetchVars, fileVars, overlapVars,
                 rdpos, row_id, last, attempt, outfile,
                 batches, idx, all_results, dispatched, all_ok>>

\* ------------------------------------------------------------------ Polaris.py
RECURSIVE Range(_, _, _)
\* range(a, b, step)
Range(a, b, step) == IF a >= b THEN <<>> ELSE <<a>> \o Range(a + step, b, step)

\* s[i : j]
Slice(s, i, j) == SubSeq(s, i + 1, IF j < Len(s) THEN j ELSE Len(s))

\* batches = [data[i:i + batch_size] for i in range(0, len(data), batch_size)]
PlanBatches(data, batch_size) ==
  LET starts == Range(0, Len(data), batch_size)
  IN [k \in 1 .. Len(starts) |-> Slice(data, starts[k], starts[k] + batch_size)]

DiagonalElementMutant(response, i) ==
  IF /\ "rows" \in DOMAIN response
     /\ i <= Len(response.rows)
     /\ "elements" \in DOMAIN response.rows[i]
     /\ i <= Len(response.rows[i].elements)
  THEN response.rows[i].elements[1]
  ELSE [missing |-> TRUE]

\* element = result['rows'][i]['elements'][i], with the except branch
DiagonalElement(response, i) ==
  IF /\ "rows" \in DOMAIN response
     /\ i <= Len(response.rows)
     /\ "elements" \in DOMAIN response.rows[i]
     /\ i <= Len(response.rows[i].elements)
  THEN response.rows[i].elements[i]
  ELSE [missing |-> TRUE]

ElementField(element, key, field, default) ==
  IF key \in DOMAIN element THEN Get(element[key], field, default) ELSE default

\* the rows fetch_distance returns for a decoded response
DistanceRows(b, response) ==
  [i \in 1 .. Len(b) |->
    LET element == DiagonalElement(response, i) IN
    [employee |-> b[i].employee, source |-> b[i].source_address,
     destination |-> b[i].destination_address,
     distance_text |-> ElementField(element, "distance", "text", EmptyText),
     distance_value |-> ElementField(element, "distance", "value", 0),
     duration_text |-> ElementField(element, "duration", "text", EmptyText),
     duration_value |-> ElementField(element, "duration", "value", 0),
     raw_response |-> response]]

\* session.get / response.json() of fetch_distance: a decoded body or an exception
PolarisOutcomes(n) ==
  { [kind |-> "json", body |-> b] : b \in Bodies(n) } \cup { [kind |-> "Exception"] }

\* batches = [...]; all_results = []
PolarisPlan ==
  /\ script = "Polaris"
  /\ bpc = "start"
  /\ batches' = PlanBatches(records, BATCH_SIZE)
  /\ idx' = 1
  /\ all_results' = <<>>
  /\ bpc' = "loop"
  /\ UNCHANGED <<confVars, fetchVars, fileVars, overlapVars,
                 rdpos, row_id, batch, last, attempt, outfile,
                 failed_log, dispatched, all_ok, cur>>

\* results = await fetch_distance(session, batch, api_key);
\* all_results.extend(results); await asyncio.sleep(delay)
PolarisFetch(o) ==
  /\ script = "Polaris"
  /\ bpc = "loop"
  /\ idx <= Len(batches)
  /\ LET b == batches[idx]
         rs == IF o.kind = "json" THEN DistanceRows(b, o.body) ELSE <<>>
     IN /\ all_results' = all_results \o rs
        /\ dispatched' = Append(dispatched, b)
        /\ cur' = [Dispatch(all_results, failed_log) EXCEPT
                     !.attempts = 1,
                     !.outcome = IF o.kind = "json" THEN "success" ELSE "failed",
                     !.data = IF o.kind = "json" THEN o.body ELSE NoData]
  /\ idx' = idx + 1
  /\ all_ok' = (all_ok /\ o.kind = "json" /\ IsAllOk(o.body, Len(batches[idx])))
  /\ UNCHANGED <<confVars, fetchVars, fileVars, overlapVars,
                 bpc, rdpos, row_id, batch, last, attempt,
                 outfile, failed_log, batches>>

\* the loop over the batches is over: the output is written unless all_results is
\* empty, then os.remove(input_path)
PolarisFinish ==
  /\ script = "Polaris"
  /\ bpc = "loop"
  /\ idx > Len(batches)
  /\ bpc' = "done"
  /\ output_written' = (all_results # <<>>)
  /\ input_exists' = FALSE
  /\ UNCHANGED <<confVars, fetchVars, overlapVars,
                 rdpos, row_id, batch, last, attempt, outfile,
                 failed_log, batches, idx, all_results, dispatched, all_ok, cur>>

\* ------------------------------------------------------------------ batch runs
FetchIdle ==
  /\ rate_limiter = 0
  /\ semaphore = 0
  /\ pc = <<>>
  /\ retry = <<>>
  /\ held = <<>>
  /\ timer = <<>>
  /\ result = <<>>
  /\ recent = <<>>
  /\ fetch_all = "off"
  /\ results = <<>>

BatchStart ==
  /\ FilesStart
  /\ OverlapIdle
  /\ GOOGLE_RATE_LIMIT_PER_SECOND = 1
  /\ timed = FALSE
  /\ concurrency = 1
  /\ MAX_RETRIES \in 0 .. MaxBatchRetries
  /\ BATCH_SIZE \in 1 .. MaxBatch
  /\ script \in {"Sign2", "Polaris"}
  /\ \E n \in 0 .. MaxRows :
        IF script = "Sign2"
        THEN /\ records = <<>>
             /\ \E kinds \in [1 .. n -> RowKinds] :
                   csv = [k \in 1 .. n |-> CsvRow(k, kinds[k])]
        ELSE /\ records = RecordsOfLen(n)
             /\ csv = <<>>
  /\ IF script = "Sign2" THEN SIGNING_SECRET \in Secrets ELSE SIGNING_SECRET = <<>>
  /\ FetchIdle
  /\ bpc = "start"
  /\ rdpos = 0
  /\ row_id = 1
  /\ batch = <<>>
  /\ last = FALSE
  /\ attempt = 0
  /\ outfile = <<>>
  /\ failed_log = <<>>
  /\ batches = <<>>
  /\ idx = 0
  /\ all_results = <<>>
  /\ dispatched = <<>>
  /\ all_ok = TRUE
  /\ cur = NoBatch

InitBatch == log_writable = TRUE /\ BatchStart

InitBatchLogFault == log_writable = FALSE /\ BatchStart

NextBatch ==
  \/ OpenOutput
  \/ ReadRecord
  \/ EndOfInput
  \/ \E o \in ApiOutcomes(Len(batch)) : ApiRequest(o)
  \/ BackoffOver
  \/ GiveUp
  \/ PolarisPlan
  \/ \E o \in PolarisOutcomes(IF bpc = "loop" /\ idx <= Len(batches)
                              THEN Len(batches[idx]) ELSE 0) : PolarisFetch(o)
  \/ PolarisFinish

InitOverlap ==
  /\ GOOGLE_RATE_LIMIT_PER_SECOND \in 1 .. MaxRate
  /\ MAX_RETRIES \in 0 .. MaxRetries
  /\ concurrency \in 1 .. MaxConcurrency
  /\ records = <<>>
  /\ timed = FALSE
  /\ script = "Test"
  /\ BATCH_SIZE = 1
  /\ csv = <<>>
  /\ SIGNING_SECRET = <<>>
  /\ log_writable = TRUE
  /\ FetchIdle
  /\ BatchIdle
  /\ FilesStart
  /\ runs = [r \in Runs |-> NotCalled]
  /\ limiters = <<>>
  /\ bound = 0

NextOverlap ==
  \/ \E r \in Runs, n \in 1 .. MaxRunRecords : CallFetchAll(r, n)
  \/ \E r \in Runs : \E u \in RunUnits(r) : RunSafeCallEnter(r, u)
  \/ \E r \in Runs : \E u \in RunUnits(r) : RunRateAcquire(r, u)
  \/ \E r \in Runs : \E u \in RunUnits(r) : RunRateWake(r, u)
  \/ \E r \in Runs : \E u \in RunUnits(r), o \in HttpOutcomes : RunResponse(r, u, o)
  \/ \E r \in Runs : \E u \in RunUnits(r) : RunBackoffDone(r, u)
  \/ \E r \in Runs : \E u \in RunUnits(r) : RunSlotRelease(r, u)
  \/ \E r \in Runs : RunReturn(r)
  \/ \E r \in Runs : RunRaise(r)

\* Calls of fetch_all that overlap in one process.
SpecOverlap == InitOverlap /\ [][NextOverlap]_vars

\* A run of batch_and_process or of Polaris' batch loop; the failure log file can
\* be appended to.
SpecBatch == InitBatch /\ [][NextBatch]_vars

\* The same run when the failure log file cannot be opened for appending.
SpecBatchLogFault == InitBatchLogFault /\ [][NextBatch]_vars

\* ------------------------------------------------------------------ properties
RECURSIVE SumSeq(_)
SumSeq(s) == IF s = <<>> THEN 0 ELSE Head(s) + SumSeq(Tail(s))

RECURSIVE Flatten(_)
Flatten(ss) == IF ss = <<>> THEN <<>> ELSE Head(ss) \o Flatten(Tail(ss))

IsPrefix(s, t) == Len(s) <= Len(t) /\ s = SubSeq(t, 1, Len(s))

CeilDiv(n, k) == (n + k - 1) \div k

BatchIds(b) == [k \in 1 .. Len(b) |-> b[k][1]]

\* The complete rows of the input file, in file order, numbered from 1.
CompleteRows ==
  SelectSeq(csv, LAMBDA row : is_complete(origin_fields(row) \o dest_fields(row)))

ValidInput ==
  LET complete == CompleteRows
  IN [m \in 1 .. Len(complete) |-> YieldedRecord(m, complete[m])]

InputRecords == IF script = "Sign2" THEN ValidInput ELSE records

\* The batch dispatched last, the rows written and the failure lines appended
\* since it was dispatched, and the matrix of the body it was answered with.
CurBatch == dispatched[Len(dispatched)]

CurRows == SubSeq(outfile, cur.out_start + 1, Len(outfile))

CurLogs == SubSeq(failed_log, cur.log_start + 1, Len(failed_log))

CurMatrix == Get(cur.data, "rows", <<>>)

CurRowLen(i) == Len(Get(CurMatrix[i], "elements", <<>>))

\* C1: in every window of one second (GOOGLE_RATE_LIMIT_PER_SECOND consecutive
\* ticks) of a fetch_all run, at most GOOGLE_RATE_LIMIT_PER_SECOND HTTP attempts
\* are started, first attempts and 429 retries of all units together.
RateBound == SumSeq(recent) <= GOOGLE_RATE_LIMIT_PER_SECOND

\* C2: the units inside safe_call's "async with semaphore" (sending, backing off,
\* waiting for a rate permit or in the slot sleep) are never more than concurrency.
ConcurrencyBound == Cardinality(InFlight) <= concurrency

\* C2 witness: the gate is full and a further unit waits at it.
ConcurrencySaturated ==
  /\ script = "Test"
  /\ Cardinality(InFlight) = concurrency
  /\ \E u \in Units : pc[u] = "pending"
  /\ \E u \in Units : pc[u] = "get"

\* C3: no state is reachable in which every in-flight unit waits for a rate permit
\* while none is free (nothing could ever release one).
NoRateDeadlock ==
  ~ /\ fetch_all = "running"
    /\ InFlight # {}
    /\ \A u \in InFlight : pc[u] = "acquire"
    /\ rate_limiter = 0

\* C4: a batch that safe_api_call gave up on had exactly MAX_RETRIES + 1 HTTP
\* attempts, with the waits base^1 .. base^MAX_RETRIES between them and none after
\* the last attempt.
RetryExhaustion ==
  cur.outcome = "exhausted" =>
    /\ cur.attempts = MAX_RETRIES + 1
    /\ cur.sleeps = [a \in 1 .. MAX_RETRIES |-> RETRY_BACKOFF_BASE ^ a]
    /\ Len(cur.sleeps) = cur.attempts - 1

\* C5: the batches handed to processing are non-empty, of at most BATCH_SIZE
\* records, their concatenation in dispatch order is a prefix of the input and, at
\* the end of the run, the whole input in ceil(N / BATCH_SIZE) batches (Sign2's
\* accumulate-and-flush loop and Polaris' slicing).
BatchCoverage ==
  /\ \A k \in 1 .. Len(dispatched) :
        Len(dispatched[k]) >= 1 /\ Len(dispatched[k]) <= BATCH_SIZE
  /\ LET input == InputRecords
         sent == Flatten(dispatched)
     IN /\ IsPrefix(sent, input)
        /\ bpc = "done" =>
              /\ sent = input
              /\ Len(dispatched) = CeilDiv(Len(input), BATCH_SIZE)
  /\ (script = "Polaris" /\ bpc \in {"loop", "done"}) =>
        /\ Flatten(batches) = records
        /\ Len(batches) = CeilDiv(Len(records), BATCH_SIZE)
        /\ \A k \in 1 .. Len(batches) :
              Len(batches[k]) >= 1 /\ Len(batches[k]) <= BATCH_SIZE
        /\ IsPrefix(dispatched, batches)

\* C5 witness: a finished run of several batches whose last batch is short.
ShortLastBatch ==
  /\ bpc = "done"
  /\ Len(dispatched) >= 2
  /\ Len(CurBatch) < BATCH_SIZE
  /\ Len(dispatched[1]) = BATCH_SIZE

\* C6: a batch whose retries are exhausted leaves exactly one failure line with all
\* ids of the batch and no output row, and the run goes on: at the end of the run
\* every valid record has been dispatched and the last batch has been processed.
ExhaustionDoesNotAbort ==
  script = "Sign2" =>
    /\ cur.outcome = "exhausted" =>
          /\ CurRows = <<>>
          /\ Len(CurLogs) = 1
          /\ CurLogs[1].ids = BatchIds(CurBatch)
    /\ bpc = "done" =>
          /\ Flatten(dispatched) = ValidInput
          /\ cur.outcome \in {"none", "success", "exhausted"}

\* C6 witness: the run is over, the first batch was given up after at least one
\* attempt (its failure line is the first of the log), and the last batch
\* succeeded with rows.
ExhaustedThenSuccess ==
  /\ script = "Sign2"
  /\ bpc = "done"
  /\ MAX_RETRIES >= 1
  /\ Len(dispatched) >= 2
  /\ failed_log # <<>>
  /\ failed_log[1].reason = <<"Max retries exceeded or API failure">>
  /\ failed_log[1].ids = BatchIds(dispatched[1])
  /\ cur.outcome = "success"
  /\ CurRows # <<>>

\* C7: a failed record never makes fetch_all raise, and the list fetch_all returns
\* holds the row of every record whose request succeeded.
PartialSuccess ==
  /\ fetch_all # "raised"
  /\ fetch_all = "returned" =>
        \A u \in Units :
          IsRow(result[u]) => \E k \in 1 .. Len(results) : results[k] = result[u]

\* C8: a response with the expected number of rows, one of which has an elements
\* length other than the number of destinations, contributes no output row.
ColumnMismatchDropsBatch ==
  ( /\ script = "Sign2"
    /\ cur.outcome = "success"
    /\ Len(CurMatrix) = Len(CurBatch)
    /\ \E i \in 1 .. Len(CurBatch) : CurRowLen(i) # Len(CurBatch) )
  => CurRows = <<>>

\* C9: a response whose rows length differs from the number of origins yields no
\* output row and exactly one failure line, with the ids of all records of the batch.
RowCountMismatchHandled ==
  ( /\ script = "Sign2"
    /\ cur.outcome = "success"
    /\ Len(CurMatrix) # Len(CurBatch) )
  => /\ CurRows = <<>>
     /\ Len(CurLogs) = 1
     /\ CurLogs[1].ids = BatchIds(CurBatch)

\* C9 witness: a batch of two was answered with a matrix of three rows.
RowCountMismatchSeen ==
  /\ script = "Sign2"
  /\ cur.outcome = "success"
  /\ Len(CurBatch) = 2
  /\ Len(CurMatrix) = 3

AllOk ==
  /\ Len(CurMatrix) = Len(CurBatch)
  /\ \A i \in 1 .. Len(CurBatch) :
        /\ CurRowLen(i) = Len(CurBatch)
        /\ \A j \in 1 .. Len(CurBatch) :
              Get(CurMatrix[i].elements[j], "status", "UNKNOWN") = "OK"

\* C10: for a well-shaped n x n response with every status OK, process_batch writes
\* n * n rows in row-major order and no failure line; the row of position (i, j)
\* has the pair id (id i, id j), the origin of record i, the destination of record
\* j and the distance and duration text of element (i, j).
ReconciliationCorrect ==
  (script = "Sign2" /\ cur.outcome = "success" /\ AllOk) =>
    LET b == CurBatch
        n == Len(b)
    IN /\ Len(CurRows) = n * n
       /\ CurLogs = <<>>
       /\ \A i \in 1 .. n, j \in 1 .. n :
            LET r == CurRows[(i - 1) * n + j]
                e == CurMatrix[i].elements[j]
            IN /\ r.id = <<Digit[b[i][1]], "-", Digit[b[j][1]]>>
               /\ r.origin = b[i][2]
               /\ r.destination = b[j][3]
               /\ r.distance_miles = e.distance.text
               /\ r.duration_time = e.duration.text

\* C10 witness: a batch of two records reconciled against a 2 x 2 all-OK matrix.
TwoByTwoReconciled ==
  /\ script = "Sign2"
  /\ cur.outcome = "success"
  /\ Len(CurBatch) = 2
  /\ AllOk
  /\ Len(CurRows) = 4

\* C11: with BATCH_SIZE = 1 and every request answered 200 with an all-OK matrix
\* (a request is made for every batch), the finished run has written, after the
\* header, one row per valid record in input order whose id column is the
\* record's own id and whose distance and duration are the returned texts, and the
\* failure log is empty.
SinglePairScenario ==
  ( /\ script = "Sign2"
    /\ BATCH_SIZE = 1
    /\ MAX_RETRIES >= 1
    /\ all_ok
    /\ bpc = "done" )
  => /\ Len(outfile) = Len(ValidInput) + 1
     /\ \A k \in 1 .. Len(ValidInput) :
           /\ outfile[k + 1].id = Str(ValidInput[k][1])
           /\ outfile[k + 1].distance_miles = TextOf("mi", 1, 1)
           /\ outfile[k + 1].duration_time = TextOf("mins", 1, 1)
     /\ failed_log = <<>>

\* C12: a unit of fetch_all whose request failed with a non-2xx status (429, 5xx,
\* any other) is given up, fetch_single returning None, only after MAX_RETRIES
\* retries of that unit.
TransientRetried ==
  \A u \in Units : result[u] = NoneValue => retry[u] = MAX_RETRIES

\* A 200 answer whose body is not a matrix of the expected shape.
Malformed(data, n) ==
  \/ data = Unparsable
  \/ LET rows == Get(data, "rows", <<>>) IN
     \/ Len(rows) # n
     \/ \E i \in 1 .. Len(rows) : Len(Get(rows[i], "elements", <<>>)) # n

\* C13: once a request of a batch has been answered 200 with a malformed body
\* (unparsable, rows missing, wrong row or element counts), no further HTTP
\* attempt is made for that batch.
NoRetryOnMalformed ==
  ( /\ script = "Sign2"
    /\ cur.answered_at # 0
    /\ Malformed(cur.data, Len(CurBatch)) )
  => cur.attempts = cur.answered_at

\* The answer of the last batch is a matrix of the expected shape.
CurWellShaped ==
  /\ Len(CurMatrix) = Len(CurBatch)
  /\ \A i \in 1 .. Len(CurBatch) : CurRowLen(i) = Len(CurBatch)

\* C14: for a well-shaped response process_batch writes exactly one row per
\* element and no failure line; the row of an element whose status is not "OK"
\* has empty distance, duration and traffic-duration fields and carries the
\* element's status.
ElementFailureKeepsRow ==
  (script = "Sign2" /\ cur.outcome = "success" /\ CurWellShaped) =>
    LET n == Len(CurBatch) IN
    /\ Len(CurRows) = n * n
    /\ CurLogs = <<>>
    /\ \A i \in 1 .. n, j \in 1 .. n :
         LET r == CurRows[(i - 1) * n + j]
             e == CurMatrix[i].elements[j]
             status == IF "status" \in DOMAIN e THEN e.status ELSE "UNKNOWN"
         IN status # "OK" =>
              /\ r.id = <<Digit[CurBatch[i][1]], "-", Digit[CurBatch[j][1]]>>
              /\ r.distance_miles = EmptyText
              /\ r.duration_time = EmptyText
              /\ r.traffic_duration_time = EmptyText
              /\ r.raw_output.prefix = <<"Status: ", status>>

\* C14 witness: a batch of two was answered with a 2 x 2 matrix whose element
\* (1, 2) has the status NOT_FOUND, and four rows were written for it.
NotFoundElementWritten ==
  /\ script = "Sign2"
  /\ cur.outcome = "success"
  /\ Len(CurBatch) = 2
  /\ CurWellShaped
  /\ Get(CurMatrix[1].elements[2], "status", "UNKNOWN") = "NOT_FOUND"
  /\ Len(CurRows) = 4

\* A row fetch_single builds when rows[0].elements[0] is missing.
FromMissingElement(r) == IsRow(r) /\ r.distance_text = "" /\ r.duration_text = ""

\* C15: a record whose 200 response has no rows[0].elements[0] gets no row from
\* fetch_single, and the list fetch_all returns holds no row for it.
MissingElementDropped ==
  /\ \A u \in Units : ~FromMissingElement(result[u])
  /\ \A k \in 1 .. Len(results) : ~FromMissingElement(results[k])

\* C16: at the end of a run of batch_and_process every valid input record is the
\* origin of a written row or has its id in a line of the failure log.
NoSilentLoss ==
  (script = "Sign2" /\ bpc = "done") =>
    LET valid == ValidInput IN
    \A k \in 1 .. Len(valid) :
      LET id == valid[k][1]
          origin == valid[k][2]
      IN \/ \E m \in 2 .. Len(outfile) : outfile[m].origin = origin
         \/ \E m \in 1 .. Len(failed_log) :
               \E p \in 1 .. Len(failed_log[m].ids) : failed_log[m].ids[p] = id

\* C16 witness: a finished run of two batches of two records; the first batch is
\* only in the failure log, the second only in the output.
LoggedAndWritten ==
  /\ script = "Sign2"
  /\ bpc = "done"
  /\ Len(dispatched) = 2
  /\ Len(dispatched[1]) = 2
  /\ Len(failed_log) = 1
  /\ failed_log[1].ids = <<1, 2>>
  /\ Len(outfile) > 1
  /\ \A m \in 2 .. Len(outfile) : outfile[m].origin # ValidInput[1][2]

\* C17: an I/O error of the failure-log append is never propagated out of
\* batch_and_process (the run goes on with the next batch).
LogErrorNotPropagated == ~(bpc = "raised" /\ cur.outcome = "log_raised")

\* A field that is empty or holds only whitespace.
Blank(f) == \A k \in 1 .. Len(f) : f[k] = " "

AddressColumns ==
  {"origin_street", "origin_city", "origin_state", "origin_zip",
   "dest_street", "dest_city", "dest_state", "dest_zip"}

\* The rows of the input file that have a blank address field.
BlankRows == { k \in 1 .. Len(csv) : \E c \in AddressColumns : Blank(csv[k][c]) }

\* The number of the input row an address was built from (its street number).
SourceRow(address) == CHOOSE k \in 1 .. Len(Digit) : Digit[k] = address[2]

\* C18: no record of a batch, no output row and no failure-log id comes from an
\* input row with a blank origin or destination field; the records dispatched come
\* from the other rows in file order, numbered 1, 2, ... and, at the end of the
\* run, from all of them.
InvalidRowsFiltered ==
  script = "Sign2" =>
    LET recs == Flatten(dispatched)
        blank == BlankRows
    IN
    /\ \A m \in 1 .. Len(recs) :
          /\ SourceRow(recs[m][2]) \notin blank
          /\ SourceRow(recs[m][3]) = SourceRow(recs[m][2])
          /\ recs[m][1] = m
          /\ m > 1 => SourceRow(recs[m - 1][2]) < SourceRow(recs[m][2])
    /\ \A m \in 2 .. Len(outfile) :
          /\ SourceRow(outfile[m].origin) \notin blank
          /\ SourceRow(outfile[m].destination) \notin blank
    /\ \A m \in 1 .. Len(failed_log) :
          \A p \in 1 .. Len(failed_log[m].ids) :
             failed_log[m].ids[p] \in 1 .. Len(recs)
    /\ bpc = "done" => Len(recs) = Len(csv) - Cardinality(blank)

\* C18 witness: a finished run over a file whose first row has an empty field and
\* whose second row a whitespace-only field; the third row was processed, with
\* id 1, and written.
BlankRowsSkipped ==
  /\ script = "Sign2"
  /\ bpc = "done"
  /\ Len(csv) = 3
  /\ csv[1].origin_city = <<>>
  /\ csv[2].dest_zip = <<" ", " ">>
  /\ Len(dispatched) = 1
  /\ dispatched[1][1][1] = 1
  /\ SourceRow(dispatched[1][1][2]) = 3
  /\ Len(outfile) = 2

\* Base URLs that differ from GOOGLE_API_BASE in scheme or host only.
OtherBases ==
  { <<"http", "://", "maps.googleapis.com", "/maps/api/distancematrix/json">>,
    <<"https", "://", "localhost:8080", "/maps/api/distancematrix/json">> }

\* The text after "&signature=" of a signed URL.
SignatureOf(signed) ==
  SubSeq(signed, IndexOf(signed, "&signature=", 1) + 1, Len(signed))

ConfigFailsFast ==
  (script = "Sign2" /\ b64decode_raises(SIGNING_SECRET)) =>
    /\ bpc # "done"
    /\ cur.attempts = 0
    /\ failed_log = <<>>

\* C21: every HTTP attempt, first or 429 retry, is in flight while its unit holds a
\* permit of the concurrency semaphore and a rate permit acquired for this attempt:
\* the permits missing from the two semaphores are exactly those of the units inside
\* safe_call and of their fetch_single frames, and a unit whose request is out has
\* one rate-holding frame per attempt made so far, the current one included.
BothGatesPerAttempt ==
  /\ semaphore = concurrency - Cardinality(InFlight)
  /\ rate_limiter = GOOGLE_RATE_LIMIT_PER_SECOND - SumSeq(held)
  /\ \A u \in Units :
        pc[u] = "get" => /\ u \in InFlight
                         /\ held[u] >= 1
                         /\ held[u] = retry[u] + 1

\* a 429 retry whose request is out
RetryAttemptInFlight ==
  \E u \in Units : pc[u] = "get" /\ retry[u] >= 1 /\ semaphore = 0

\* C22: no permit leaks: neither semaphore ever has more permits than it was created
\* with, a finished unit holds no rate permit, and when every unit has finished
\* (row, non-200, 429 exhaustion or exception) both semaphores are back at
\* GOOGLE_RATE_LIMIT_PER_SECOND and concurrency.
NoPermitLeak ==
  /\ rate_limiter <= GOOGLE_RATE_LIMIT_PER_SECOND
  /\ semaphore <= concurrency
  /\ \A u \in Units : pc[u] = "done" => held[u] = 0
  /\ (\A u \in Units : pc[u] = "done") =>
        /\ rate_limiter = GOOGLE_RATE_LIMIT_PER_SECOND
        /\ semaphore = concurrency

\* every unit has finished, one by an exception, one by 429 exhaustion, one with a row
AllExitPathsTaken ==
  /\ \A u \in Units : pc[u] = "done"
  /\ \E u \in Units : result[u] = Raised
  /\ \E u \in Units : result[u] = NoneValue /\ retry[u] = MAX_RETRIES /\ retry[u] >= 1
  /\ \E u \in Units : IsRow(result[u])

\* C23: a unit that was answered 429 and has retries left gets to make its next
\* attempt (so that a record answered 429 every time has MAX_RETRIES + 1 attempts):
\* it never waits for its rate permit in a state where no step of the run is
\* possible any more.
RetryAttemptsAllMade ==
  \A u \in Units :
    (fetch_all = "running" /\ pc[u] = "acquire" /\ retry[u] >= 1) => ENABLED NextFetch

\* Where the batch dispatched last is in its life: "Sent" while a request of
\* safe_api_call is due or out, "Retrying" during the backoff sleep, "Success" once
\* safe_api_call returned the decoded 200 body, "Exhausted" once it returned None;
\* "Aborted" when an exception ended the run in the middle of the batch.
Stage(c, p) ==
  CASE c.outcome = "success" -> "Success"
    [] c.outcome = "exhausted" -> "Exhausted"
    [] c.outcome = "sent" /\ p = "sleep" -> "Retrying"
    [] c.outcome = "sent" -> "Sent"
    [] c.outcome = "none" -> "Pending"
    [] OTHER -> "Aborted"

LifeCycle ==
  {<<"Sent", "Success">>, <<"Sent", "Retrying">>, <<"Retrying", "Sent">>,
   <<"Sent", "Exhausted">>, <<"Sent", "Aborted">>}

\* the records of batch b were in no batch dispatched before
NeverDispatched(b) ==
  \A k \in 1 .. Len(dispatched) :
    \A i \in 1 .. Len(dispatched[k]) : \A j \in 1 .. Len(b) : dispatched[k][i] # b[j]

TerminalStep ==
  script = "Sign2" =>
    IF dispatched' # dispatched
    THEN /\ Len(dispatched') = Len(dispatched) + 1
         /\ SubSeq(dispatched', 1, Len(dispatched)) = dispatched
         /\ NeverDispatched(dispatched'[Len(dispatched')])
         /\ Stage(cur, bpc) \in {"Pending", "Success", "Exhausted"}
         /\ Stage(cur', bpc') \in {"Sent", "Aborted"}
         /\ cur'.attempts = 0
    ELSE /\ \/ Stage(cur', bpc') = Stage(cur, bpc)
            \/ <<Stage(cur, bpc), Stage(cur', bpc')>> \in LifeCycle
         /\ cur'.attempts # cur.attempts =>
               /\ Stage(cur, bpc) = "Sent"
               /\ cur'.attempts = cur.attempts + 1
         /\ Stage(cur, bpc) \in {"Success", "Exhausted"} => cur' = cur

\* C24: every batch of batch_and_process is dispatched once and goes
\* Pending -> Sent -> {Success, Retrying -> Sent, Exhausted}; after Success or
\* Exhausted no HTTP attempt is made for it any more (the next attempt belongs to a
\* batch of records never dispatched before).
TerminalStates == [][TerminalStep]_vars

\* the run is over: a batch was given up after a retry, a later one succeeded at its
\* second attempt
ExhaustedThenRetriedSuccess ==
  /\ script = "Sign2"
  /\ bpc = "done"
  /\ Len(dispatched) >= 2
  /\ cur.outcome = "success"
  /\ cur.attempts = 2
  /\ \E m \in 1 .. Len(failed_log) :
        failed_log[m].reason = <<"Max retries exceeded or API failure">>

\* C25: the failure log holds at most one line per batch.
OneFailureLinePerBatch ==
  \A m \in 1 .. Len(failed_log) : \A n \in 1 .. Len(failed_log) :
    m # n => failed_log[m].ids # failed_log[n].ids

\* C26: overlapping runs of fetch_all do not interfere through the rate limiter: no
\* semaphore created as a run's rate limiter ever has more than
\* GOOGLE_RATE_LIMIT_PER_SECOND permits available.
RunsDoNotInterfere ==
  \A i \in 1 .. Len(limiters) : limiters[i] <= GOOGLE_RATE_LIMIT_PER_SECOND

\* C27: after a run over a non-empty input the input file is removed only when the
\* run has written output.
InputKeptUnlessWritten == (records # <<>> /\ ~input_exists) => output_written

\* C28: the list fetch_all returns holds the rows of the units that produced one, one
\* row each, in the order of their records in the input, whatever the order the
\* units finished in.
ResultOrder ==
  fetch_all = "returned" =>
    LET rowUnits == { u \in Units : IsRow(result[u]) } IN
    /\ Len(results) = Cardinality(rowUnits)
    /\ \A k \in 1 .. Len(results) :
          /\ results[k].employee \in rowUnits
          /\ results[k] = result[results[k].employee]
    /\ \A k \in 1 .. Len(results) - 1 : results[k].employee < results[k + 1].employee

\* three records, the middle one failed after a 429 retry, the other two have rows
MiddleRecordDropped ==
  /\ fetch_all = "returned"
  /\ Len(records) = 3
  /\ result[2] = NoneValue
  /\ retry[2] >= 1
  /\ Len(results) = 2

\* C29: no unit holds more than one rate permit, so the rate permits held are at
\* most as many as the units in flight.
OneRatePermitPerUnit ==
  /\ \A u \in Units : held[u] <= 1
  /\ SumSeq(held) <= Cardinality(InFlight)

\* the result row of record rec for position k of a decoded response
PolarisRowOk(row, rec, data, k) ==
  LET rows == Get(data, "rows", <<>>)
      elements == IF k <= Len(rows) THEN Get(rows[k], "elements", <<>>) ELSE <<>>
      has(key) == k <= Len(elements) /\ key \in DOMAIN elements[k]
  IN /\ row.employee = rec.employee
     /\ row.source = rec.source_address
     /\ row.destination = rec.destination_address
     /\ row.raw_response = data
     /\ IF has("distance")
        THEN /\ row.distance_text = elements[k].distance.text
             /\ row.distance_value = elements[k].distance.value
        ELSE /\ row.distance_text = EmptyText
             /\ row.distance_value = 0
     /\ IF has("duration")
        THEN /\ row.duration_text = elements[k].duration.text
             /\ row.duration_value = elements[k].duration.value
        ELSE /\ row.duration_text = EmptyText
             /\ row.duration_value = 0

====
